---- MODULE Spec2Model ----
(***************************************************************************)
(* Model of the AOC measurement aggregation (AOCBackend.py) and of the     *)
(* AOCW watcher run loop (AOCW_lib.py).                                     *)
(*                                                                         *)
(* Python floats are modelled as exact rationals [n, d] in lowest terms.    *)
(* Python None is the empty sequence, a present value x is <<x>>.           *)
(* The configuration file holds JSON text, modelled as typed tokens.        *)
(*                                                                         *)
(* Spec is the watcher; SpecSet, SpecDay, SpecFetch and SpecConfig apply    *)
(* MeasurementSet, MeasurementDay, the paginated fetch and PermaConfig's    *)
(* save and load on their own, to inputs the watcher alone does not reach.  *)
(***************************************************************************)
EXTENDS Integers, Sequences, FiniteSets, TLC

VARIABLES
    store,      \* ~/.aocw/config.json: the JSON text of the persisted PermaConfig
    proc,       \* per process: the locals and the output of one AOCW.run invocation
    clock,      \* wall clock read by datetime.now()
    nruns,      \* number of run invocations started so far
    dayset,     \* a MeasurementSet object (aggregate specification)
    calls,      \* history: the calls made on the object under study
    bucket      \* a MeasurementDay object (day bucket specification)

vars == <<store, proc, clock, nruns, dayset, calls, bucket>>

---------------------------------------------------------------------------
(* Bounds of the model *)

MaxRuns == 2
MaxLines == 2
MaxPages == 2
MaxSetDays == 3
MaxCount == 3
MaxWindow == 2

Inputs == {"a", "b"}
Procs == {1, 2}

---------------------------------------------------------------------------
(* Option values and rationals *)

None == <<>>
Some(x) == <<x>>
IsNone(o) == o = <<>>
Val(o) == o[1]

Abs(i) == IF i < 0 THEN -i ELSE i

RECURSIVE Gcd(_, _)
Gcd(a, b) == IF b = 0 THEN a ELSE Gcd(b, a % b)

\* a / b for b > 0, in lowest terms
Frac(a, b) ==
    LET g == Gcd(Abs(a), b)
    IN  [n |-> a \div g, d |-> b \div g]

MinusOne == [n |-> -1, d |-> 1]
Zero == [n |-> 0, d |-> 1]

RSub(x, y) == Frac(x.n * y.d - y.n * x.d, x.d * y.d)
RGt(x, y) == x.n * y.d > y.n * x.d

---------------------------------------------------------------------------
(* AOCBackend.MeasurementDay *)

\* a ratio that is 0 for a day without measurements
RatioOfZero(count, measurement_count) ==
    IF measurement_count # 0 THEN Some(Frac(count, measurement_count)) ELSE Some(Zero)

\* count / measurement_count if measurement_count != 0 else None
RatioOf(count, measurement_count) ==
    IF measurement_count # 0 THEN Some(Frac(count, measurement_count)) ELSE None

MeasurementDay(measurement_count, anomaly_count, failure_count, start_day, inpt, confirmed_count) ==
    [ measurement_count |-> measurement_count,
      anomaly_count |-> anomaly_count,
      failure_count |-> failure_count,
      confirmed_count |-> confirmed_count,
      start_day |-> start_day,
      input |-> inpt,
      anomaly_ratio |-> RatioOf(anomaly_count, measurement_count),
      failure_ratio |-> RatioOf(failure_count, measurement_count),
      confirmed_ratio |-> RatioOf(confirmed_count, measurement_count),
      weird_behavior_ratio |->
          RatioOf(confirmed_count + anomaly_count + failure_count, measurement_count) ]

---------------------------------------------------------------------------
(* AOCBackend.MeasurementSet *)

\* insert x after every element whose key is <= its own (stable)
RECURSIVE InsertByDay(_, _)
InsertByDay(sorted, x) ==
    IF sorted = <<>> THEN <<x>>
    ELSE IF Head(sorted).start_day <= x.start_day
         THEN <<Head(sorted)>> \o InsertByDay(Tail(sorted), x)
         ELSE <<x>> \o sorted

\* list.sort(key=lambda x: x.start_day): stable, ascending
RECURSIVE SortByDay(_)
SortByDay(days) ==
    IF days = <<>> THEN <<>>
    ELSE InsertByDay(SortByDay(SubSeq(days, 1, Len(days) - 1)), days[Len(days)])

RECURSIVE SumOver(_, _)
SumOver(days, field) ==
    IF days = <<>> THEN 0 ELSE Head(days)[field] + SumOver(Tail(days), field)

MeasurementSet(days) ==
    LET tm == SumOver(days, "measurement_count")
        ta == SumOver(days, "anomaly_count")
        tf == SumOver(days, "failure_count")
        tc == SumOver(days, "confirmed_count")
    IN  [ days |-> SortByDay(days),
          total_measurements |-> tm,
          total_anomalies |-> ta,
          total_failures |-> tf,
          total_confirmed |-> tc,
          total_weird_behavior |-> tc + ta + tf ]

get_avg_anomalies(self) ==
    IF self.total_measurements # 0
    THEN Frac(self.total_anomalies, self.total_measurements)
    ELSE MinusOne

\* get_avg_failures answering 0 for a set without measurements
get_avg_failuresZero(self) ==
    IF self.total_measurements # 0
    THEN Frac(self.total_failures, self.total_measurements)
    ELSE Zero

get_avg_failures(self) ==
    IF self.total_measurements # 0
    THEN Frac(self.total_failures, self.total_measurements)
    ELSE MinusOne

get_avg_confirmed(self) ==
    IF self.total_measurements # 0
    THEN Frac(self.total_confirmed, self.total_measurements)
    ELSE MinusOne

get_avg_weirds(self) ==
    IF self.total_measurements # 0
    THEN Frac(self.total_weird_behavior, self.total_measurements)
    ELSE MinusOne

\* add_day that appends without sorting again
add_dayUnsorted(self, day) ==
    [ self EXCEPT
        !.days = Append(self.days, day),
        !.total_measurements = @ + day.measurement_count,
        !.total_anomalies = @ + day.anomaly_count,
        !.total_confirmed = @ + day.confirmed_count,
        !.total_failures = @ + day.failure_count ]

add_day(self, day) ==
    [ self EXCEPT
        !.days = SortByDay(Append(self.days, day)),
        !.total_measurements = @ + day.measurement_count,
        !.total_anomalies = @ + day.anomaly_count,
        !.total_confirmed = @ + day.confirmed_count,
        !.total_failures = @ + day.failure_count ]

---------------------------------------------------------------------------
(* AOCBackend.get_measurements_list_api *)

NETWORK_ERROR == "network_error"
BAD_ARGUMENTS == "bad_arguments"
UNKOWN == "unknown"

\* what the function hands to its caller: a list of days, an error string,
\* or an exception that leaves the function
ReturnList(days) == [tag |-> "list", days |-> days, err |-> ""]
ReturnStr(e) == [tag |-> "str", days |-> <<>>, err |-> e]
Raise(e) == [tag |-> "raise", days |-> <<>>, err |-> e]

\* days[d] for curr_day = since .. last_day, all counts 0
EmptyDays(since, until) ==
    [ d \in since..until |->
        [anomaly_count |-> 0, measurement_count |-> 0,
         failure_count |-> 0, confirmed_count |-> 0] ]

\* for m in results: days[date][...] += ...; a date that is no key raises KeyError
RECURSIVE SumResults(_, _)
SumResults(days, results) ==
    IF results = <<>> THEN [ok |-> TRUE, days |-> days]
    ELSE LET m == Head(results)
             date == m.measurement_start_day
         IN  IF date \notin DOMAIN days
             THEN [ok |-> FALSE, days |-> days]
             ELSE SumResults(
                    [days EXCEPT ![date] =
                        [anomaly_count |-> @.anomaly_count + m.anomaly,
                         measurement_count |-> @.measurement_count + 1,
                         failure_count |-> @.failure_count + m.failure,
                         confirmed_count |-> @.confirmed_count + m.confirmed]],
                    Tail(results))

\* bucketing that leaves out the days without a record
BucketByDaySparse(since, until, domain, results) ==
    LET summed == SumResults(EmptyDays(since, until), results)
        all == [ i \in 1..(until - since + 1) |->
                   LET d == since + i - 1
                       metrics == summed.days[d]
                   IN  MeasurementDay(metrics.measurement_count, metrics.anomaly_count,
                                      metrics.failure_count, d, domain,
                                      metrics.confirmed_count) ]
        Measured(day) == day.measurement_count > 0
    IN  IF ~summed.ok THEN Raise("KeyError")
        ELSE ReturnList(SelectSeq(all, Measured))

\* lines 249-281: bucket the accumulated records by calendar day
BucketByDay(since, until, domain, results) ==
    LET summed == SumResults(EmptyDays(since, until), results)
    IN  IF ~summed.ok THEN Raise("KeyError")
        ELSE ReturnList(
               [ i \in 1..(until - since + 1) |->
                   LET d == since + i - 1
                       metrics == summed.days[d]
                   IN  MeasurementDay(metrics.measurement_count, metrics.anomaly_count,
                                      metrics.failure_count, d, domain,
                                      metrics.confirmed_count) ])

\* one iteration of "while next_url != None" (lines 221-247) on response resp:
\* either the function ends (done, with ret) or the loop goes on with more results
RequestPage(since, until, domain, results, resp) ==
    IF resp.raises THEN [done |-> TRUE, ret |-> ReturnStr(NETWORK_ERROR), results |-> results]
    ELSE IF resp.status_code # 200
    THEN [done |-> TRUE, ret |-> ReturnStr(NETWORK_ERROR), results |-> results]
    ELSE IF ~resp.json
    THEN [done |-> TRUE, ret |-> Raise("JSONDecodeError"), results |-> results]
    ELSE IF resp.error
    THEN [done |-> TRUE, ret |-> ReturnStr(BAD_ARGUMENTS), results |-> results]
    ELSE IF IsNone(resp.metadata)
    THEN [done |-> TRUE, ret |-> ReturnStr(UNKOWN), results |-> results]
    ELSE IF IsNone(resp.results)
    THEN [done |-> TRUE, ret |-> Raise("TypeError"), results |-> results]
    ELSE LET all == results \o Val(resp.results)
         IN  IF Val(resp.metadata).next_url
             THEN [done |-> FALSE, ret |-> ReturnList(<<>>), results |-> all]
             ELSE [done |-> TRUE, ret |-> BucketByDay(since, until, domain, all),
                   results |-> all]

---------------------------------------------------------------------------
(* AOCW_lib.PermaConfig *)

OK == "ok"
COULD_NOT_ACCESS_CONFIG_FILE == "could_not_access_config_file"
COULD_NOT_ACCESS_LOG_FILE == "could_not_access_log_file"
COULD_NOT_ACCESS_LIST_FILE == "could_not_access_list_file"

\* thresholds the init command may have stored (critical_anomaly_rate > 0)
CriticalRates == {Frac(1, 2), Frac(1, 10)}

\* PermaConfig(...): the fields the run reads, urls = {}, and the last field
\* that load reads, mail_to_notify = ''
PermaConfig(critical_anomaly_rate, active, n_days_before) ==
    [ state |-> OK,
      active |-> active,
      n_days_before |-> n_days_before,
      critical_anomaly_rate |-> critical_anomaly_rate,
      urls |-> <<>>,
      mail_to_notify |-> "" ]

\* PermaConfig() with the defaults of __init__
DefaultConfig == PermaConfig(Frac(1, 10), TRUE, 1)

---------------------------------------------------------------------------
(* JSON text, as json.dumps writes it and json.load reads it: null, numbers  *)
(* with and without a fraction part, strings, true/false and objects         *)

JNull == [type |-> "null"]
JBool(b) == [type |-> "bool", value |-> b]
JInt(i) == [type |-> "int", value |-> i]
JNumber(x) == [type |-> "number", value |-> x]
JString(str) == [type |-> "string", value |-> str]
JObject(members) == [type |-> "object", members |-> members]

\* a writer that puts the sentinel -1 where the value is None
DumpsFloatOrSentinel(o) == IF IsNone(o) THEN JNumber(MinusOne) ELSE JNumber(Val(o))

\* json.dumps of a value that is None or a float
DumpsFloatOrNone(o) == IF IsNone(o) THEN JNull ELSE JNumber(Val(o))

\* json.dumps of a value that is None or a str
DumpsStrOrNone(o) == IF IsNone(o) THEN JNull ELSE JString(Val(o))

\* json.dumps of one entry of urls
DumpsEntry(e) ==
    JObject([ previous_rate |-> JNumber(e.previous_rate),
              current_rate |-> JNumber(e.current_rate),
              change |-> DumpsFloatOrNone(e.change),
              last_check |-> DumpsStrOrNone(e.last_check),
              last_update |-> DumpsStrOrNone(e.last_update) ])

\* json.load of null or a scalar
LoadsOrNone(j) == IF j.type = "null" THEN None ELSE Some(j.value)

\* json.load of one entry of urls
LoadsEntry(j) ==
    [ previous_rate |-> j.members.previous_rate.value,
      current_rate |-> j.members.current_rate.value,
      change |-> LoadsOrNone(j.members.change),
      last_check |-> LoadsOrNone(j.members.last_check),
      last_update |-> LoadsOrNone(j.members.last_update) ]

\* data[key] for the keys that load reads
LoadsField(key, j) ==
    IF key = "urls"
    THEN [ url \in DOMAIN j.members |-> LoadsEntry(j.members[url]) ]
    ELSE j.value

\* the JSON text written by save
to_json(self) ==
    JObject([ active |-> JBool(self.active),
              n_days_before |-> JInt(self.n_days_before),
              critical_anomaly_rate |-> JNumber(self.critical_anomaly_rate),
              urls |-> JObject([ url \in DOMAIN self.urls |-> DumpsEntry(self.urls[url]) ]),
              mail_to_notify |-> JString(self.mail_to_notify) ])

\* save that reports success and writes nothing
saveUnwritten(self, file, written) ==
    IF written
    THEN [config |-> self, file |-> file]
    ELSE [config |-> [self EXCEPT !.state = COULD_NOT_ACCESS_CONFIG_FILE], file |-> file]

\* save: on a failed write the file keeps its content and state is set
save(self, file, written) ==
    IF written
    THEN [config |-> self, file |-> to_json(self)]
    ELSE [config |-> [self EXCEPT !.state = COULD_NOT_ACCESS_CONFIG_FILE], file |-> file]

\* the order in which load assigns the fields it reads
LoadOrder == <<"active", "n_days_before", "critical_anomaly_rate", "urls", "mail_to_notify">>

\* lines 144-152: self.<key> = data[<key>], one key after the other; a key the
\* document lacks raises KeyError and the assignments made so far stay
RECURSIVE LoadFields(_, _, _)
LoadFields(self, data, keys) ==
    IF keys = <<>> THEN self
    ELSE IF Head(keys) \notin DOMAIN data
         THEN [self EXCEPT !.state = COULD_NOT_ACCESS_CONFIG_FILE]
         ELSE LoadFields([self EXCEPT ![Head(keys)] = LoadsField(Head(keys), data[Head(keys)])],
                         data, Tail(keys))

\* load that does not report a failure
loadSilent(self, file, readable) ==
    IF readable
    THEN [LoadFields(self, file.members, LoadOrder) EXCEPT !.state = OK]
    ELSE self

\* load: readable says whether the file could be opened and parsed as JSON
load(self, file, readable) ==
    IF readable
    THEN LoadFields(self, file.members, LoadOrder)
    ELSE [self EXCEPT !.state = COULD_NOT_ACCESS_CONFIG_FILE]

NewEntry ==
    [ previous_rate |-> MinusOne,
      current_rate |-> MinusOne,
      change |-> None,
      last_check |-> None,
      last_update |-> None ]

\* urls.get(url): None when url is no key
UrlsGet(urls, url) == IF url \in DOMAIN urls THEN Some(urls[url]) ELSE None

add_entry(self, url) ==
    IF IsNone(UrlsGet(self.urls, url))
    THEN [self EXCEPT !.urls = (url :> NewEntry) @@ self.urls]
    ELSE self

---------------------------------------------------------------------------
(* AOCW_lib.AOCW.run: the body of the loop over the list file *)

\* UpdateEntry without the first-observation branch
UpdateEntryAlwaysDelta(self, line, ratio, now) ==
    LET last == self.urls[line].current_rate
    IN  [ self EXCEPT !.urls[line] =
            [ previous_rate |-> last,
              current_rate |-> ratio,
              change |-> Some(RSub(ratio, last)),
              last_check |-> Some(now),
              last_update |-> Some(now) ] ]

\* UpdateEntry that does not shift current_rate into previous_rate
UpdateEntryNoShift(self, line, ratio, now) ==
    LET last == self.urls[line].current_rate
        change == IF last = MinusOne THEN Zero ELSE RSub(ratio, last)
    IN  [ self EXCEPT !.urls[line] =
            [ previous_rate |-> @.previous_rate,
              current_rate |-> ratio,
              change |-> Some(change),
              last_check |-> Some(now),
              last_update |-> Some(now) ] ]

\* UpdateEntry with the difference taken the wrong way round
UpdateEntryReversed(self, line, ratio, now) ==
    LET last == self.urls[line].current_rate
        change == IF last = MinusOne THEN Zero ELSE RSub(last, ratio)
    IN  [ self EXCEPT !.urls[line] =
            [ previous_rate |-> last,
              current_rate |-> ratio,
              change |-> Some(change),
              last_check |-> Some(now),
              last_update |-> Some(now) ] ]

\* UpdateEntry that leaves last_update as it was
UpdateEntryNoDate(self, line, ratio, now) ==
    LET last == self.urls[line].current_rate
        change == IF last = MinusOne THEN Zero ELSE RSub(ratio, last)
    IN  [ self EXCEPT !.urls[line] =
            [ previous_rate |-> last,
              current_rate |-> ratio,
              change |-> Some(change),
              last_check |-> Some(now),
              last_update |-> @.last_update ] ]

\* lines 614-623: shift the rates of urls[line] and store the change
UpdateEntry(self, line, ratio, now) ==
    LET last == self.urls[line].current_rate
        change == IF last = MinusOne THEN Zero ELSE RSub(ratio, last)
    IN  [ self EXCEPT !.urls[line] =
            [ previous_rate |-> last,
              current_rate |-> ratio,
              change |-> Some(change),
              last_check |-> Some(now),
              last_update |-> Some(now) ] ]

\* the no-data branch also moving last_update
TouchLastCheckAndUpdate(self, line, now) ==
    [self EXCEPT !.urls[line].last_check = Some(now), !.urls[line].last_update = Some(now)]

\* line 611: no measurements, only the check date moves
TouchLastCheck(self, line, now) ==
    [self EXCEPT !.urls[line].last_check = Some(now)]

\* the alert decision with >= in place of >
IsCriticalOrEqual(change, critical_anomaly_rate) == ~RGt(critical_anomaly_rate, change)

\* line 625: the alert decision
IsCritical(change, critical_anomaly_rate) == RGt(change, critical_anomaly_rate)

\* ProcessLine that makes the entry before it looks at what the fetch returned
ProcessLineEntryFirst(self, line, days, now) ==
    LET withEntry == IF IsNone(UrlsGet(self.urls, line)) THEN add_entry(self, line) ELSE self
        ratio == get_avg_anomalies(MeasurementSet(days.days))
    IN  IF days.tag = "str"
        THEN [ config |-> withEntry,
               log |-> << [kind |-> "ERROR", time |-> now, url |-> line, err |-> days.err,
                           change |-> Zero] >>,
               alerts |-> <<>>,
               ratio |-> MinusOne,
               outcome |-> "error" ]
        ELSE IF ratio = MinusOne
        THEN [ config |-> TouchLastCheck(withEntry, line, now),
               log |-> <<>>,
               alerts |-> <<>>,
               ratio |-> ratio,
               outcome |-> "nodata" ]
        ELSE LET updated == UpdateEntry(withEntry, line, ratio, now)
                 change == Val(updated.urls[line].change)
             IN  IF IsCritical(change, updated.critical_anomaly_rate)
                 THEN [ config |-> updated,
                        log |-> << [kind |-> "ALERT", time |-> now, url |-> line,
                                    err |-> "", change |-> change] >>,
                        alerts |-> << [url |-> line, change |-> change, time |-> now] >>,
                        ratio |-> ratio,
                        outcome |-> "updated" ]
                 ELSE [ config |-> updated,
                        log |-> <<>>,
                        alerts |-> <<>>,
                        ratio |-> ratio,
                        outcome |-> "updated" ]

\* lines 599-627 for one line of the list file, given what the fetch returned
\* (a list of days or an error string): the new config, the lines written to
\* the log and the alerts sent
ProcessLine(self, line, days, now) ==
    IF days.tag = "str"
    THEN [ config |-> self,
           log |-> << [kind |-> "ERROR", time |-> now, url |-> line, err |-> days.err,
                       change |-> Zero] >>,
           alerts |-> <<>>,
           ratio |-> MinusOne,
           outcome |-> "error" ]
    ELSE LET withEntry == IF IsNone(UrlsGet(self.urls, line)) THEN add_entry(self, line) ELSE self
             ratio == get_avg_anomalies(MeasurementSet(days.days))
         IN  IF ratio = MinusOne
             THEN [ config |-> TouchLastCheck(withEntry, line, now),
                    log |-> <<>>,
                    alerts |-> <<>>,
                    ratio |-> ratio,
                    outcome |-> "nodata" ]
             ELSE LET updated == UpdateEntry(withEntry, line, ratio, now)
                      change == Val(updated.urls[line].change)
                  IN  IF IsCritical(change, updated.critical_anomaly_rate)
                      THEN [ config |-> updated,
                             log |-> << [kind |-> "ALERT", time |-> now, url |-> line,
                                         err |-> "", change |-> change] >>,
                             alerts |-> << [url |-> line, change |-> change, time |-> now] >>,
                             ratio |-> ratio,
                             outcome |-> "updated" ]
                      ELSE [ config |-> updated,
                             log |-> <<>>,
                             alerts |-> <<>>,
                             ratio |-> ratio,
                             outcome |-> "updated" ]

---------------------------------------------------------------------------
(* The environment: the remote measurement API and the list file *)

Record(day, anomaly, failure, confirmed) ==
    [ measurement_start_day |-> day, anomaly |-> anomaly,
      failure |-> failure, confirmed |-> confirmed ]

\* records the API may return; day 2 lies after the queried range 0..1
RemoteRecords ==
    { Record(0, 1, 0, 0), Record(1, 0, 1, 0), Record(1, 0, 0, 1), Record(2, 0, 0, 0) }

PageResults == {<<>>} \cup { <<m>> : m \in RemoteRecords }

Response(raises, status_code, json, error, metadata, results) ==
    [ raises |-> raises, status_code |-> status_code, json |-> json,
      error |-> error, metadata |-> metadata, results |-> results ]

GoodResponse(results, next_url) ==
    Response(FALSE, 200, TRUE, FALSE, Some([next_url |-> next_url]), Some(results))

BadResponses ==
    { Response(TRUE, 0, FALSE, FALSE, None, None),                             \* requests.get raises
      Response(FALSE, 500, FALSE, FALSE, None, None),                          \* status != 200
      Response(FALSE, 200, FALSE, FALSE, None, None),                          \* body is no JSON
      Response(FALSE, 200, TRUE, TRUE, None, None),                            \* {"error": ...}
      Response(FALSE, 200, TRUE, FALSE, None, Some(<<>>)),                     \* no "metadata"
      Response(FALSE, 200, TRUE, FALSE, Some([next_url |-> FALSE]), None) }    \* no "results"

\* the answers to request number page of a continuation chain
Responses(page) ==
    BadResponses \cup
    { GoodResponse(rs, nxt) : rs \in PageResults,
                              nxt \in IF page < MaxPages THEN BOOLEAN ELSE {FALSE} }

\* contents of the list file: up to MaxLines lines
ListFiles == UNION { [1..k -> Inputs] : k \in 0..MaxLines }

---------------------------------------------------------------------------
(* AOCW_lib.AOCW.run as a process *)

IdleProc ==
    [ pc |-> "idle",            \* idle, fetch, fetched, save, done
      state |-> OK,             \* AOCW.state
      permaConfig |-> DefaultConfig,
      lines |-> <<>>,           \* list_file.readlines()
      idx |-> 0,                \* the line being processed
      page |-> 0,               \* requests made by the running fetch
      results |-> <<>>,         \* results accumulated by the fetch of this line
      resp |-> None,            \* the last response the fetch received
      days |-> None,            \* what the fetch handed back
      log |-> <<>>,             \* lines this run appended to the log file
      alerts |-> <<>>,          \* calls of AOCW.alert made by this run
      run |-> 0,                \* history: the number of this invocation
      peers |-> FALSE,          \* history: whether another run was going on when this one started
      readable |-> TRUE,        \* history: whether this run could read the config file
      stored |-> JObject(<<>>), \* history: the config file as this run found it
      loaded |-> <<>>,          \* history: urls as loaded at the start of the run
      hist |-> <<>>,            \* history: one record per processed line
      saves |-> 0 ]             \* history: calls of save in this run

Finished(r, state) == [r EXCEPT !.pc = "done", !.state = state]

\* a loop that stops after its first line
MoreLinesNever(r) == FALSE

\* line 590: whether the loop over readlines() has another line
MoreLines(r) == r.idx < Len(r.lines)

\* the scheduler starts a run every Period ticks; a fetch takes one tick
Period == MaxLines + 1

\* lines 563-590: load the config, open the log and the list file
RunStart(p) ==
    /\ proc[p].pc \in {"idle", "done"}
    /\ nruns < MaxRuns
    /\ nruns' = nruns + 1
    /\ clock' = nruns' * Period
    /\ \E readable \in BOOLEAN, logOpens \in BOOLEAN, listOpens \in BOOLEAN, lines \in ListFiles :
         LET cfg == load(DefaultConfig, store, readable)
             r == [IdleProc EXCEPT !.permaConfig = cfg, !.loaded = cfg.urls,
                                   !.readable = readable, !.stored = store,
                                   !.run = nruns',
                                   !.peers = \E q \in Procs \ {p} :
                                                 proc[q].pc \notin {"idle", "done"}]
             info == [kind |-> "INFO", time |-> clock', url |-> "", err |-> "", change |-> Zero]
         IN  proc' = [proc EXCEPT ![p] =
                IF cfg.state # OK THEN Finished(r, COULD_NOT_ACCESS_CONFIG_FILE)
                ELSE IF ~cfg.active THEN Finished(r, OK)
                ELSE IF ~logOpens THEN Finished(r, COULD_NOT_ACCESS_LOG_FILE)
                ELSE IF ~listOpens
                THEN Finished([r EXCEPT !.log = <<info>>], COULD_NOT_ACCESS_LIST_FILE)
                ELSE IF lines = <<>>
                THEN [r EXCEPT !.log = <<info>>, !.pc = "save"]
                ELSE [r EXCEPT !.log = <<info>>, !.pc = "fetch", !.lines = lines, !.idx = 1]]
    /\ UNCHANGED <<store, dayset, calls, bucket>>

\* one request of get_measurements_list_api(since, until, line)
Request(p) ==
    LET r == proc[p]
        until == r.permaConfig.n_days_before
        since == until - r.permaConfig.n_days_before
    IN  /\ r.pc = "fetch"
        /\ \E resp \in Responses(r.page + 1) :
             LET step == RequestPage(since, until, r.lines[r.idx], r.results, resp)
             IN  proc' = [proc EXCEPT ![p] =
                    IF step.done
                    THEN [r EXCEPT !.pc = "fetched", !.page = 0, !.results = step.results,
                                   !.resp = Some(resp), !.days = Some(step.ret)]
                    ELSE [r EXCEPT !.page = @ + 1, !.results = step.results,
                                   !.resp = Some(resp)]]
        /\ UNCHANGED <<store, clock, nruns, dayset, calls, bucket>>

\* lines 599-627 and the next iteration; an exception ends the run at line 630
HandleFetch(p) ==
    LET r == proc[p]
        days == Val(r.days)
        line == r.lines[r.idx]
        now == clock + 1
        before == UrlsGet(r.permaConfig.urls, line)
    IN  /\ r.pc = "fetched"
        /\ clock' = now
        /\ IF days.tag = "raise"
           THEN proc' = [proc EXCEPT ![p] =
                          [Finished(r, COULD_NOT_ACCESS_LIST_FILE) EXCEPT
                             !.results = <<>>,
                             !.hist = Append(@, [url |-> line, time |-> now, outcome |-> "raise",
                                                 err |-> days.err, ratio |-> MinusOne,
                                                 before |-> before, after |-> before])]]
           ELSE LET done == ProcessLine(r.permaConfig, line, days, now)
                    h == [url |-> line, time |-> now, outcome |-> done.outcome,
                          err |-> days.err, ratio |-> done.ratio,
                          before |-> before, after |-> UrlsGet(done.config.urls, line)]
                IN  proc' = [proc EXCEPT ![p] =
                               [r EXCEPT !.permaConfig = done.config,
                                         !.log = @ \o done.log,
                                         !.alerts = @ \o done.alerts,
                                         !.hist = Append(@, h),
                                         !.results = <<>>,
                                         !.resp = None,
                                         !.days = None,
                                         !.idx = IF MoreLines(r) THEN @ + 1 ELSE @,
                                         !.pc = IF MoreLines(r) THEN "fetch" ELSE "save"]]
        /\ UNCHANGED <<store, nruns, dayset, calls, bucket>>

\* lines 634-635: permaConfig.save() and log_file.close()
Save(p) ==
    LET r == proc[p]
    IN  /\ r.pc = "save"
        /\ \E written \in BOOLEAN :
             LET saved == save(r.permaConfig, store, written)
             IN  /\ store' = saved.file
                 /\ proc' = [proc EXCEPT ![p] =
                              [r EXCEPT !.pc = "done", !.permaConfig = saved.config,
                                        !.saves = @ + 1]]
        /\ UNCHANGED <<clock, nruns, dayset, calls, bucket>>

---------------------------------------------------------------------------
(* The watcher: runs started one after the other by the scheduler *)

EmptySet == MeasurementSet(<<>>)
EmptyBucket == MeasurementDay(0, 0, 0, 0, "a", 0)

\* the JSON text without one of its members
Without(file, key) ==
    JObject([ k \in DOMAIN file.members \ {key} |-> file.members[k] ])

\* what the configuration file may hold before the first run: what init saved,
\* or such a file that has lost its last member
ConfigFiles ==
    { to_json(PermaConfig(critical, active, 1)) : critical \in CriticalRates, active \in BOOLEAN }
    \cup { Without(to_json(DefaultConfig), "mail_to_notify") }

Init ==
    /\ store \in ConfigFiles
    /\ proc = [p \in Procs |-> IdleProc]
    /\ clock = 0
    /\ nruns = 0
    /\ dayset = EmptySet
    /\ calls = <<>>
    /\ bucket = EmptyBucket

Next ==
    \/ RunStart(1)
    \/ Request(1)
    \/ HandleFetch(1)
    \/ Save(1)

Spec == Init /\ [][Next]_vars

---------------------------------------------------------------------------
(* Two watchers at once: nothing keeps a run from starting while another    *)
(* one is going on (the scheduler and a user, or a run that outlasts the     *)
(* scheduler's period); every run has its own PermaConfig object and they    *)
(* share the configuration file. The list file has fewer than MaxLines lines *)

RunStartShort(p) == RunStart(p) /\ Len(proc'[p].lines) < MaxLines

NextTwo ==
    \E p \in Procs :
        \/ RunStartShort(p)
        \/ Request(p)
        \/ HandleFetch(p)
        \/ Save(p)

SpecTwo == Init /\ [][NextTwo]_vars

---------------------------------------------------------------------------
(* The aggregate on its own: a MeasurementSet built from a list of days and *)
(* grown by add_day                                                         *)

\* day buckets as the two fetch functions build them; two of them share a day
SampleDays ==
    { MeasurementDay(3, 1, 2, 0, "a", 0),
      MeasurementDay(0, 0, 0, 1, "a", 0),
      MeasurementDay(2, 0, 1, 1, "a", 1),
      MeasurementDay(1, 1, 0, 2, "a", 0),
      MeasurementDay(4, 2, 0, 3, "a", 3) }

DayLists == UNION { [1..k -> SampleDays] : k \in 0..MaxSetDays }

InitSet ==
    /\ store = to_json(DefaultConfig)
    /\ proc = [p \in Procs |-> IdleProc]
    /\ clock = 0
    /\ nruns = 0
    /\ \E days \in DayLists : dayset = MeasurementSet(days)
    /\ calls = <<>>
    /\ bucket = EmptyBucket

AddDay ==
    /\ Len(dayset.days) < MaxSetDays
    /\ \E day \in SampleDays :
         /\ dayset' = add_day(dayset, day)
         /\ calls' = Append(calls, day)
    /\ UNCHANGED <<store, proc, clock, nruns, bucket>>

NextSet == AddDay

SpecSet == InitSet /\ [][NextSet]_vars

---------------------------------------------------------------------------
(* The day bucket on its own: MeasurementDay built from any counts *)

InitDay ==
    /\ store = to_json(DefaultConfig)
    /\ proc = [p \in Procs |-> IdleProc]
    /\ clock = 0
    /\ nruns = 0
    /\ dayset = EmptySet
    /\ calls = <<>>
    /\ bucket = EmptyBucket

NewDay ==
    /\ \E measurement_count \in 0..MaxCount, anomaly_count \in 0..MaxCount,
          failure_count \in 0..MaxCount, confirmed_count \in 0..MaxCount, inpt \in Inputs :
         bucket' = MeasurementDay(measurement_count, anomaly_count, failure_count,
                                  clock, inpt, confirmed_count)
    /\ UNCHANGED <<store, proc, clock, nruns, dayset, calls>>

NextDay == NewDay

SpecDay == InitDay /\ [][NextDay]_vars

---------------------------------------------------------------------------
(* The fetch on its own: get_measurements_list_api(since, until, line) called *)
(* by a run for one line, for every window length the stored configuration    *)
(* may hold (load does not validate n_days_before; 0 gives since = until)     *)

InitFetch ==
    /\ store = to_json(DefaultConfig)
    /\ \E n_days_before \in 0..MaxWindow, line \in Inputs :
         proc = [p \in Procs |->
                   IF p = 1
                   THEN [IdleProc EXCEPT !.pc = "fetch",
                                         !.permaConfig = PermaConfig(Frac(1, 10), TRUE, n_days_before),
                                         !.lines = <<line>>,
                                         !.idx = 1]
                   ELSE IdleProc]
    /\ clock = 0
    /\ nruns = 1
    /\ dayset = EmptySet
    /\ calls = <<>>
    /\ bucket = EmptyBucket

NextFetch == Request(1)

SpecFetch == InitFetch /\ [][NextFetch]_vars

---------------------------------------------------------------------------
(* The configuration object on its own: save applied to a PermaConfig that   *)
(* holds entries (process 1), load applied to a new PermaConfig (process 2)  *)

\* entries as add_entry and the run loop leave them
SampleEntries ==
    { NewEntry,
      [NewEntry EXCEPT !.last_check = Some(1)],
      [ previous_rate |-> MinusOne, current_rate |-> Frac(1, 2), change |-> Some(Zero),
        last_check |-> Some(2), last_update |-> Some(1) ],
      [ previous_rate |-> Frac(1, 2), current_rate |-> Zero, change |-> Some(Frac(-1, 2)),
        last_check |-> Some(2), last_update |-> Some(2) ] }

SampleUrls == UNION { [D -> SampleEntries] : D \in SUBSET Inputs }

SampleConfigs ==
    { [PermaConfig(critical, FALSE, 2) EXCEPT !.urls = urls, !.mail_to_notify = "me@mail"] :
        critical \in CriticalRates, urls \in SampleUrls }

\* files found before any save of the object: complete ones, and ones that
\* lack one of the members load reads
SampleFiles ==
    LET full == { to_json(c) : c \in { x \in SampleConfigs : DOMAIN x.urls = {"a"} } }
    IN  full \cup { Without(f, LoadOrder[i]) : f \in full, i \in 1..Len(LoadOrder) }

InitConfig ==
    /\ store \in SampleFiles
    /\ \E self \in SampleConfigs :
         proc = [p \in Procs |-> IF p = 1 THEN [IdleProc EXCEPT !.permaConfig = self]
                                         ELSE IdleProc]
    /\ clock = 0
    /\ nruns = 0
    /\ dayset = EmptySet
    /\ calls = <<>>
    /\ bucket = EmptyBucket

\* proc[1].permaConfig.save()
SaveConfig ==
    /\ proc[1].saves = 0
    /\ \E written \in BOOLEAN :
         LET saved == save(proc[1].permaConfig, store, written)
         IN  /\ store' = saved.file
             /\ proc' = [proc EXCEPT ![1].permaConfig = saved.config, ![1].saves = @ + 1]
             /\ calls' = Append(calls, [op |-> "save", ok |-> written])
    /\ UNCHANGED <<clock, nruns, dayset, bucket>>

\* proc[2].permaConfig = PermaConfig(); proc[2].permaConfig.load()
LoadConfig ==
    /\ \A i \in 1..Len(calls) : calls[i].op # "load"
    /\ \E readable \in BOOLEAN :
         /\ proc' = [proc EXCEPT ![2].permaConfig = load(DefaultConfig, store, readable),
                                 ![2].readable = readable,
                                 ![2].stored = store]
         /\ calls' = Append(calls, [op |-> "load", ok |-> readable])
    /\ UNCHANGED <<store, clock, nruns, dayset, bucket>>

NextConfig == SaveConfig \/ LoadConfig

SpecConfig == InitConfig /\ [][NextConfig]_vars

---------------------------------------------------------------------------
(* Properties of the run loop and of the fetch *)

Failed(h) == h.outcome \in {"error", "raise"}

\* C1: partial-failure isolation. When the fetch of one line of the list fails
\* in any way, the finished run has still processed every line of the list and
\* has called save.
C1_PartialFailureIsolation ==
    \A p \in Procs :
        LET r == proc[p]
        IN  (r.pc = "done" /\ \E i \in 1..Len(r.hist) : Failed(r.hist[i]))
            => (Len(r.hist) = Len(r.lines) /\ r.saves = 1)

\* C2: the paginated fetch hands every failure back as an error string and
\* never raises: transport failure or status other than 200 gives
\* network_error, a response with an error gives bad_arguments, a response
\* without metadata or without results gives unknown.
C2_FetchReturnsErrorValues ==
    \A p \in Procs :
        LET r == proc[p]
        IN  r.pc = "fetched" =>
              LET resp == Val(r.resp)
                  ret == Val(r.days)
                  arrived == ~resp.raises /\ resp.status_code = 200
              IN  /\ ret.tag # "raise"
                  /\ ~arrived => ret = ReturnStr(NETWORK_ERROR)
                  /\ (arrived /\ resp.json /\ resp.error) => ret = ReturnStr(BAD_ARGUMENTS)
                  /\ (arrived /\ resp.json /\ ~resp.error
                        /\ (IsNone(resp.metadata) \/ IsNone(resp.results)))
                     => ret = ReturnStr(UNKOWN)

Alerted(r, h) ==
    \/ \E k \in 1..Len(r.alerts) : r.alerts[k].url = h.url /\ r.alerts[k].time = h.time
    \/ \E k \in 1..Len(r.log) :
         r.log[k].kind = "ALERT" /\ r.log[k].url = h.url /\ r.log[k].time = h.time

\* the entry a line starts from: the stored one, or the new entry of add_entry
EntryBefore(h) == IF IsNone(h.before) THEN NewEntry ELSE Val(h.before)

\* x = a - b, by cross multiplication
IsDifference(x, a, b) == x.n * (a.d * b.d) = (a.n * b.d - b.n * a.d) * x.d

\* C4: a line whose fetch succeeds with zero measurements in the window moves
\* only last_check of its entry and raises no alert; an input that got nothing
\* but such lines (or failed fetches) in a run keeps previous_rate,
\* current_rate, change and last_update as they were loaded.
C4_NoDataTouchesOnlyLastCheck ==
    \A p \in Procs :
        LET r == proc[p]
        IN  /\ \A i \in 1..Len(r.hist) :
                 LET h == r.hist[i]
                 IN  h.outcome = "nodata" =>
                       /\ h.ratio = MinusOne
                       /\ h.after = Some([EntryBefore(h) EXCEPT !.last_check = Some(h.time)])
                       /\ ~Alerted(r, h)
            /\ \A url \in Inputs :
                 LET mine == { i \in 1..Len(r.hist) : r.hist[i].url = url }
                     old == IF url \in DOMAIN r.loaded THEN r.loaded[url] ELSE NewEntry
                 IN  (/\ \E i \in mine : r.hist[i].outcome = "nodata"
                      /\ \A i \in mine : r.hist[i].outcome # "updated")
                     => /\ url \in DOMAIN r.permaConfig.urls
                        /\ LET e == r.permaConfig.urls[url]
                           IN  /\ e.previous_rate = old.previous_rate
                               /\ e.current_rate = old.current_rate
                               /\ e.change = old.change
                               /\ e.last_update = old.last_update
                               /\ e.last_check # old.last_check

\* a no-data line for an input whose stored rates are real
C4_Witness ==
    \E p \in Procs : \E i \in 1..Len(proc[p].hist) :
        LET h == proc[p].hist[i]
        IN  /\ h.outcome = "nodata"
            /\ ~IsNone(h.before)
            /\ Val(h.before).current_rate # MinusOne
            /\ Val(h.before).previous_rate # MinusOne
            /\ h.url \in DOMAIN proc[p].loaded

\* C5: first observation. A line that obtains a real ratio r for an entry
\* whose current_rate is -1 leaves previous_rate = -1, current_rate = r and
\* change = 0, and raises no alert.
C5_FirstObservation ==
    \A p \in Procs : \A i \in 1..Len(proc[p].hist) :
        LET h == proc[p].hist[i]
        IN  (h.outcome = "updated" /\ EntryBefore(h).current_rate = MinusOne)
            => /\ h.ratio # MinusOne
               /\ Val(h.after).previous_rate = MinusOne
               /\ Val(h.after).current_rate = h.ratio
               /\ Val(h.after).change = Some(Zero)
               /\ ~Alerted(proc[p], h)

\* a first observation of rate 1, which is 2 above the sentinel
C5_Witness ==
    \E p \in Procs : \E i \in 1..Len(proc[p].hist) :
        LET h == proc[p].hist[i]
        IN  /\ h.outcome = "updated"
            /\ EntryBefore(h).current_rate = MinusOne
            /\ h.ratio = Frac(1, 1)

\* C6: update step. A line that obtains a real ratio r for an entry whose
\* current_rate is a real rate c leaves previous_rate = c, current_rate = r,
\* change = r - c and last_check = last_update = the time of this line; a
\* current_rate of 0.05 and a ratio of 0.30 give a change of 0.25.
C6_UpdateShiftsRates ==
    /\ \A p \in Procs : \A i \in 1..Len(proc[p].hist) :
         LET h == proc[p].hist[i]
             c == EntryBefore(h).current_rate
             e == Val(h.after)
         IN  (h.outcome = "updated" /\ c # MinusOne)
             => /\ h.ratio # MinusOne
                /\ e.previous_rate = c
                /\ e.current_rate = h.ratio
                /\ ~IsNone(e.change) /\ IsDifference(Val(e.change), h.ratio, c)
                /\ e.last_check = Some(h.time)
                /\ e.last_update = Some(h.time)
    /\ LET stored == [DefaultConfig EXCEPT !.urls =
                        ("example.com" :> [NewEntry EXCEPT !.current_rate = Frac(5, 100)])]
           e == UpdateEntry(stored, "example.com", Frac(30, 100), clock).urls["example.com"]
       IN  /\ e.previous_rate = Frac(5, 100)
           /\ e.current_rate = Frac(30, 100)
           /\ e.change = Some(Frac(25, 100))

\* an update from a real rate to a different one, in a later run than the
\* first observation
C6_Witness ==
    \E p \in Procs : \E i \in 1..Len(proc[p].hist) :
        LET h == proc[p].hist[i]
        IN  /\ h.outcome = "updated"
            /\ EntryBefore(h).current_rate \notin {MinusOne, h.ratio}
            /\ h.url \in DOMAIN proc[p].loaded
            /\ Val(h.after).last_update # EntryBefore(h).last_update

\* C7: alert decision. The notifier calls and the ALERT lines of a run are, in
\* order, exactly the lines of the list whose entry was updated with a change
\* strictly greater than critical_anomaly_rate.
C7_AlertIffCritical ==
    \A p \in Procs :
        LET r == proc[p]
            Critical(h) == /\ h.outcome = "updated"
                           /\ RGt(Val(Val(h.after).change), r.permaConfig.critical_anomaly_rate)
            IsAlertLine(l) == l.kind = "ALERT"
            expected == SelectSeq(r.hist, Critical)
            alertLines == SelectSeq(r.log, IsAlertLine)
        IN  /\ Len(r.alerts) = Len(expected)
            /\ Len(alertLines) = Len(expected)
            /\ \A k \in 1..Len(expected) :
                 LET change == Val(Val(expected[k].after).change)
                 IN  /\ r.alerts[k] = [url |-> expected[k].url, change |-> change,
                                       time |-> expected[k].time]
                     /\ alertLines[k].url = expected[k].url
                     /\ alertLines[k].time = expected[k].time
                     /\ alertLines[k].change = change

\* a run with a rise exactly equal to the threshold (no alert), a larger rise
\* (one alert) and a drop (no alert)
C7_Witness ==
    \E p \in Procs :
        LET r == proc[p]
            crit == r.permaConfig.critical_anomaly_rate
        IN  /\ Len(r.alerts) = 1
            /\ \E i \in 1..Len(r.hist) :
                 /\ r.hist[i].outcome = "updated"
                 /\ Val(r.hist[i].after).change = Some(crit)
            /\ \E i \in 1..Len(r.hist) :
                 /\ r.hist[i].outcome = "updated"
                 /\ RGt(Val(Val(r.hist[i].after).change), crit)

\* the entries in the configuration file, as load reads them
StoredUrls == LoadsField("urls", store.members.urls)

\* every entry the program holds: the persisted ones and those in memory
AllEntries ==
    { StoredUrls[u] : u \in DOMAIN StoredUrls }
    \cup UNION { { proc[p].permaConfig.urls[u] : u \in DOMAIN proc[p].permaConfig.urls }
                 : p \in Procs }

\* C8 as stated: whenever change is present it equals
\* current_rate - previous_rate.
C8_ChangeIsDifferenceOriginal ==
    \A e \in AllEntries :
        ~IsNone(e.change) => IsDifference(Val(e.change), e.current_rate, e.previous_rate)

\* C8 amended: whenever change is present it equals
\* current_rate - previous_rate, except that it is 0 while previous_rate is
\* still the sentinel -1 (the entry has been measured once).
C8_ChangeIsDifferenceOrFirst ==
    \A e \in AllEntries :
        ~IsNone(e.change) =>
            IF e.previous_rate = MinusOne
            THEN e.change = Some(Zero)
            ELSE IsDifference(Val(e.change), e.current_rate, e.previous_rate)

\* a persisted entry measured in two runs, whose rate changed
C8_Witness ==
    \E u \in DOMAIN StoredUrls :
        LET e == StoredUrls[u]
        IN  /\ e.previous_rate # MinusOne
            /\ ~IsNone(e.change) /\ e.change # Some(Zero)
            /\ e.last_update # e.last_check

\* C9: within one run an entry is updated at most once per input identifier,
\* so the change held when the run ends is the difference to the rate that was
\* loaded at its start.
C9_UpdatedOncePerRun ==
    \A p \in Procs :
        LET r == proc[p]
        IN  \A url \in Inputs :
              LET updates == { i \in 1..Len(r.hist) :
                                 r.hist[i].url = url /\ r.hist[i].outcome = "updated" }
              IN  /\ Cardinality(updates) <= 1
                  /\ (updates # {} /\ url \in DOMAIN r.loaded
                        /\ r.loaded[url].current_rate # MinusOne)
                     => LET e == r.permaConfig.urls[url]
                        IN  /\ e.previous_rate = r.loaded[url].current_rate
                            /\ IsDifference(Val(e.change), e.current_rate,
                                            r.loaded[url].current_rate)

\* the run r created or changed the entry of url
Touched(r, url) ==
    \E i \in 1..Len(r.hist) :
        r.hist[i].url = url /\ r.hist[i].outcome \in {"updated", "nodata"}

\* C22: a line whose fetch returns an error string leaves the entries as they
\* are: the entry of its input keeps its five fields (last_check too), an
\* input without an entry gets none, and no entry of another input changes
\* while the line is handled; an input whose lines all failed in a run has at
\* the end of the run the entry it had when the run loaded the file, or none.
C22_ErrorLeavesEntriesUntouched ==
    /\ [](\A p \in Procs :
            LET r == proc[p]
            IN  /\ \A i \in 1..Len(r.hist) :
                     r.hist[i].outcome = "error" => r.hist[i].after = r.hist[i].before
                /\ \A url \in Inputs :
                     ((\E i \in 1..Len(r.hist) : r.hist[i].url = url) /\ ~Touched(r, url))
                     => UrlsGet(r.permaConfig.urls, url) = UrlsGet(r.loaded, url))
    /\ [][\A p \in Procs :
            (proc[p].pc = "fetched" /\ Val(proc[p].days).tag = "str")
            => /\ proc'[p].permaConfig.urls = proc[p].permaConfig.urls
               /\ proc'[p].alerts = proc[p].alerts]_vars

\* a run in which the fetch failed for an input that has a stored entry with
\* real rates and for an input that has no entry, and succeeded for neither
C22_Witness ==
    \E p \in Procs :
        LET r == proc[p]
        IN  /\ r.pc = "save"
            /\ Len(r.hist) = 2
            /\ r.hist[1].outcome = "error" /\ r.hist[2].outcome = "error"
            /\ r.hist[1].url # r.hist[2].url
            /\ \E i \in 1..2 :
                 /\ ~IsNone(r.hist[i].before)
                 /\ Val(r.hist[i].before).previous_rate # MinusOne
            /\ \E i \in 1..2 :
                 /\ IsNone(r.hist[i].before)
                 /\ r.hist[i].url \notin DOMAIN r.permaConfig.urls

\* the load of r failed: the file could not be read, or lacks a member
LoadFails(r) ==
    \/ ~r.readable
    \/ \E i \in 1..Len(LoadOrder) : LoadOrder[i] \notin DOMAIN r.stored.members

\* C23: starting from a file without entries, every entry, in the file and in
\* the object of a run, has current_rate = -1 exactly when change is None and
\* exactly when last_update is None, has a real previous_rate only with a real
\* current_rate, and has last_check whenever it has last_update; a run starts
\* from the entries of the file, and an entry whose current_rate is a real
\* rate keeps a real current_rate, in the file and during a run.
C23_NeverMeasuredConsistency ==
    /\ [](\A e \in AllEntries :
            /\ (e.current_rate = MinusOne) <=> IsNone(e.change)
            /\ (e.current_rate = MinusOne) <=> IsNone(e.last_update)
            /\ e.previous_rate # MinusOne => e.current_rate # MinusOne
            /\ ~IsNone(e.last_update) => ~IsNone(e.last_check))
    /\ [][/\ \A url \in DOMAIN StoredUrls :
               StoredUrls[url].current_rate # MinusOne
               => /\ url \in DOMAIN StoredUrls'
                  /\ StoredUrls'[url].current_rate # MinusOne
          /\ \A p \in Procs :
               IF proc'[p].run # proc[p].run
               THEN ~LoadFails(proc'[p]) => proc'[p].permaConfig.urls = StoredUrls
               ELSE \A url \in DOMAIN proc[p].permaConfig.urls :
                        proc[p].permaConfig.urls[url].current_rate # MinusOne
                        => /\ url \in DOMAIN proc'[p].permaConfig.urls
                           /\ proc'[p].permaConfig.urls[url].current_rate # MinusOne]_vars

\* a file with an entry that was measured and later checked without data, and
\* an entry that was checked and never measured
C23_Witness ==
    \E u, v \in DOMAIN StoredUrls :
        /\ StoredUrls[u].current_rate # MinusOne
        /\ StoredUrls[u].last_check # StoredUrls[u].last_update
        /\ StoredUrls[v].current_rate = MinusOne
        /\ StoredUrls[v].previous_rate = MinusOne
        /\ IsNone(StoredUrls[v].change)
        /\ ~IsNone(StoredUrls[v].last_check)

---------------------------------------------------------------------------
(* Properties of two runs sharing the configuration file *)

\* the run r ended after a save that was written
SavedRun(r) ==
    /\ r.pc = "done" /\ r.saves = 1
    /\ r.state = OK /\ r.permaConfig.state = OK

\* C21: two runs p and q that both saved, p having started first.
\* If q started while p was going on (both loaded before either saved), both
\* started from the same file, the file holds the entries of the one that
\* saved last, and every entry that one did not touch itself is as it loaded
\* it: what the other run stored for it is lost. If q started after p had
\* ended, q started from the entries p saved, and every entry p touched is in
\* the file, unchanged unless q touched it too.
C21_LostUpdateOnlyWhenOverlapping ==
    \A p, q \in Procs :
        LET first == proc[p]
            second == proc[q]
            LastIs(last) ==
                StoredUrls = last.permaConfig.urls =>
                    \A url \in Inputs :
                        ~Touched(last, url) =>
                            UrlsGet(StoredUrls, url) = UrlsGet(last.loaded, url)
        IN  (p # q /\ SavedRun(first) /\ SavedRun(second) /\ first.run < second.run) =>
              IF second.peers
              THEN /\ second.stored = first.stored
                   /\ second.loaded = first.loaded
                   /\ StoredUrls \in {first.permaConfig.urls, second.permaConfig.urls}
                   /\ LastIs(first)
                   /\ LastIs(second)
              ELSE /\ second.loaded = first.permaConfig.urls
                   /\ StoredUrls = second.permaConfig.urls
                   /\ \A url \in Inputs :
                        Touched(first, url) =>
                            /\ url \in DOMAIN StoredUrls
                            /\ ~Touched(second, url) =>
                                 StoredUrls[url] = first.permaConfig.urls[url]

\* two runs that went on at once: the first measured "a" and saved, the
\* second, which checked "b" only, saved after it, and the file has no entry
\* for "a"
C21_Witness ==
    \E p, q \in Procs :
        /\ p # q /\ SavedRun(proc[p]) /\ SavedRun(proc[q])
        /\ proc[p].run < proc[q].run /\ proc[q].peers
        /\ \E i \in 1..Len(proc[p].hist) :
             proc[p].hist[i].url = "a" /\ proc[p].hist[i].outcome = "updated"
        /\ Touched(proc[q], "b") /\ ~Touched(proc[q], "a")
        /\ "a" \in DOMAIN proc[p].permaConfig.urls
        /\ "a" \notin DOMAIN StoredUrls

\* two runs one after the other: the second started from what the first saved
C21_WitnessSequential ==
    \E p, q \in Procs :
        /\ p # q /\ SavedRun(proc[p]) /\ SavedRun(proc[q])
        /\ proc[p].run < proc[q].run /\ ~proc[q].peers
        /\ Touched(proc[p], "a") /\ Touched(proc[q], "b")

---------------------------------------------------------------------------
(* Properties of the configuration store *)

\* C16: when load fails, because the file cannot be read or cannot be parsed
\* into a complete configuration, every field of the object still holds its
\* default value and the failure is reported in state
\* (could_not_access_config_file), not raised.
C16_FailedLoadKeepsDefaults ==
    LET r == proc[2]
    IN  (Len(calls) > 0 /\ calls[Len(calls)].op = "load" /\ LoadFails(r))
        => r.permaConfig = [DefaultConfig EXCEPT !.state = COULD_NOT_ACCESS_CONFIG_FILE]

\* C17: a run whose save fails to write ends with an error status, not with
\* ok.
C17_SaveFailureSurfaced ==
    \A p \in Procs :
        LET r == proc[p]
        IN  (r.pc = "done" /\ r.saves = 1
               /\ r.permaConfig.state = COULD_NOT_ACCESS_CONFIG_FILE)
            => r.state # OK

\* C18: a run whose load fails ends at once with status
\* could_not_access_config_file: it makes no request, processes no line,
\* creates or changes no entry, writes nothing to the log, raises no alert,
\* does not call save, and the configuration file is as the run found it.
C18_FailedLoadAbortsRun ==
    \A p \in Procs :
        LET r == proc[p]
        IN  (r.pc # "idle" /\ LoadFails(r)) =>
              /\ r.pc = "done"
              /\ r.state = COULD_NOT_ACCESS_CONFIG_FILE
              /\ r.page = 0 /\ IsNone(r.resp) /\ IsNone(r.days)
              /\ r.hist = <<>>
              /\ r.log = <<>>
              /\ r.alerts = <<>>
              /\ r.saves = 0
              /\ store = r.stored

\* a second run that could not read the file in which the first run had
\* stored an entry
C18_Witness ==
    \E p \in Procs :
        LET r == proc[p]
        IN  /\ nruns = 2
            /\ r.pc = "done" /\ ~r.readable
            /\ DOMAIN StoredUrls # {}

\* C19: round trip. A save that succeeds followed by a load into a new object
\* gives that object the same input identifiers and, for each of them, the
\* same previous_rate, current_rate, change, last_check and last_update, the
\* -1 and the None values included.
C19_SaveLoadRoundTrip ==
    (/\ Len(calls) = 2
     /\ calls[1] = [op |-> "save", ok |-> TRUE]
     /\ calls[2] = [op |-> "load", ok |-> TRUE])
    => LET saved == proc[1].permaConfig
           loaded == proc[2].permaConfig
       IN  /\ loaded.state = OK
           /\ DOMAIN loaded.urls = DOMAIN saved.urls
           /\ \A url \in DOMAIN saved.urls :
                /\ loaded.urls[url].previous_rate = saved.urls[url].previous_rate
                /\ loaded.urls[url].current_rate = saved.urls[url].current_rate
                /\ loaded.urls[url].change = saved.urls[url].change
                /\ loaded.urls[url].last_check = saved.urls[url].last_check
                /\ loaded.urls[url].last_update = saved.urls[url].last_update
           /\ loaded.active = saved.active
           /\ loaded.n_days_before = saved.n_days_before
           /\ loaded.critical_anomaly_rate = saved.critical_anomaly_rate

\* a round trip of two entries, one never checked and one measured twice
C19_Witness ==
    /\ Len(calls) = 2
    /\ calls[1] = [op |-> "save", ok |-> TRUE]
    /\ calls[2] = [op |-> "load", ok |-> TRUE]
    /\ DOMAIN proc[1].permaConfig.urls = {"a", "b"}
    /\ proc[1].permaConfig.urls["a"] = NewEntry
    /\ proc[1].permaConfig.urls["b"].previous_rate # MinusOne
    /\ proc[2].permaConfig.urls["a"].change = None

---------------------------------------------------------------------------
(* Properties of the paginated fetch *)

\* the days since..until a run asks for
Window(r) == 0..r.permaConfig.n_days_before

\* the fetch of r got every page of its chain and none of them was defective
ChainComplete(r) ==
    /\ r.pc = "fetched"
    /\ LET resp == Val(r.resp)
       IN  /\ ~resp.raises /\ resp.status_code = 200 /\ resp.json /\ ~resp.error
           /\ ~IsNone(resp.metadata) /\ ~IsNone(resp.results)

\* the number of records of day d for which flag is set
RECURSIVE CountOf(_, _, _)
CountOf(results, d, flag) ==
    IF results = <<>> THEN 0
    ELSE (IF Head(results).measurement_start_day = d THEN Head(results)[flag] ELSE 0)
         + CountOf(Tail(results), d, flag)

\* C14: a fetch that succeeds for since <= until returns exactly one day
\* bucket for every day of since..until (until - since + 1 buckets, in order,
\* each for another day), whatever records were received; with no record at
\* all every bucket has all counts 0 and all ratios absent.
C14_OneBucketPerDay ==
    \A p \in Procs :
        LET r == proc[p]
        IN  (r.pc = "fetched" /\ Val(r.days).tag = "list") =>
              LET days == Val(r.days).days
              IN  /\ Len(days) = Cardinality(Window(r))
                  /\ \A d \in Window(r) :
                       Cardinality({ i \in 1..Len(days) : days[i].start_day = d }) = 1
                  /\ r.results = <<>> =>
                       \A i \in 1..Len(days) :
                           /\ days[i].measurement_count = 0
                           /\ days[i].anomaly_count = 0
                           /\ days[i].failure_count = 0
                           /\ days[i].confirmed_count = 0
                           /\ IsNone(days[i].anomaly_ratio)
                           /\ IsNone(days[i].failure_ratio)
                           /\ IsNone(days[i].confirmed_ratio)
                           /\ IsNone(days[i].weird_behavior_ratio)

\* a fetch over three days that received records, over two pages, for one of
\* them only
C14_Witness ==
    \E p \in Procs :
        LET r == proc[p]
        IN  /\ r.pc = "fetched" /\ Val(r.days).tag = "list"
            /\ Cardinality(Window(r)) = 3
            /\ Len(r.results) = 2
            /\ \A i \in 1..2 : r.results[i].measurement_start_day = 1

\* C15: every record accumulated over the pages of a chain is folded into the
\* bucket of its own day: for every record list received the fetch returns
\* buckets whose measurement_count sums to the number of records, and whose
\* anomaly, failure and confirmed counts of a day are the numbers of that
\* day's records with the flag set.
C15_EveryRecordFolded ==
    \A p \in Procs :
        LET r == proc[p]
        IN  ChainComplete(r) =>
              /\ Val(r.days).tag = "list"
              /\ LET days == Val(r.days).days
                 IN  /\ SumOver(days, "measurement_count") = Len(r.results)
                     /\ \A i \in 1..Len(days) :
                          LET d == days[i].start_day
                          IN  /\ days[i].anomaly_count = CountOf(r.results, d, "anomaly")
                              /\ days[i].failure_count = CountOf(r.results, d, "failure")
                              /\ days[i].confirmed_count = CountOf(r.results, d, "confirmed")

---------------------------------------------------------------------------
(* Properties of the aggregate *)

\* C10: total_measurements, total_anomalies, total_failures and
\* total_confirmed are the sums of the counts of the contained days, and days
\* is sorted ascending by start_day, after construction and after every
\* add_day.
C10_TotalsAndOrder ==
    /\ dayset.total_measurements = SumOver(dayset.days, "measurement_count")
    /\ dayset.total_anomalies = SumOver(dayset.days, "anomaly_count")
    /\ dayset.total_failures = SumOver(dayset.days, "failure_count")
    /\ dayset.total_confirmed = SumOver(dayset.days, "confirmed_count")
    /\ \A i, j \in 1..Len(dayset.days) :
         i < j => dayset.days[i].start_day <= dayset.days[j].start_day

\* a set built from a list whose days were not in order, to which add_day then
\* gave a day earlier than its last one
C10_Witness ==
    /\ Len(calls) >= 1
    /\ Len(dayset.days) = Len(calls) + 2
    /\ calls[Len(calls)].start_day < dayset.days[Len(dayset.days)].start_day
    /\ calls[Len(calls)].measurement_count > 0
    /\ dayset.total_confirmed > 0

\* x = a / b for b > 0, by cross multiplication
IsQuotient(x, a, b) == x.n * b = a * x.d

---------------------------------------------------------------------------
(* Properties of the day bucket *)

\* C13: for all non-negative counts, a MeasurementDay with measurement_count 0
\* has its four ratios absent (None, not 0), and one with measurement_count
\* N > 0 has anomaly_ratio, failure_ratio and confirmed_ratio equal to its
\* count / N and weird_behavior_ratio = (confirmed + anomaly + failure) / N.
C13_DayRatios ==
    LET N == bucket.measurement_count
        Right(ratio, count) ==
            IF N = 0 THEN IsNone(ratio)
            ELSE ~IsNone(ratio) /\ IsQuotient(Val(ratio), count, N) /\ Val(ratio).d > 0
    IN  /\ Right(bucket.anomaly_ratio, bucket.anomaly_count)
        /\ Right(bucket.failure_ratio, bucket.failure_count)
        /\ Right(bucket.confirmed_ratio, bucket.confirmed_count)
        /\ Right(bucket.weird_behavior_ratio,
                 bucket.confirmed_count + bucket.anomaly_count + bucket.failure_count)

\* a day whose weird_behavior_ratio exceeds 1 while each single ratio does not
C13_Witness ==
    /\ bucket.measurement_count = 2
    /\ bucket.anomaly_count = 2 /\ bucket.failure_count = 1 /\ bucket.confirmed_count = 2
    /\ bucket.weird_behavior_ratio = Some(Frac(5, 2))
    /\ bucket.anomaly_ratio = Some(Frac(1, 1))

---------------------------------------------------------------------------
(* Properties of the aggregate, continued *)

\* C11: total_weird_behavior = total_confirmed + total_anomalies +
\* total_failures in every state of a set, after add_day calls too, so that
\* get_avg_weirds is the sum of the anomaly, failure and confirmed counts of
\* the contained days over total_measurements whenever that is positive.
C11_WeirdTotalIsSum ==
    /\ dayset.total_weird_behavior =
         dayset.total_confirmed + dayset.total_anomalies + dayset.total_failures
    /\ dayset.total_measurements > 0 =>
         IsQuotient(get_avg_weirds(dayset),
                    SumOver(dayset.days, "anomaly_count")
                      + SumOver(dayset.days, "failure_count")
                      + SumOver(dayset.days, "confirmed_count"),
                    dayset.total_measurements)

\* C12: each of get_avg_anomalies, get_avg_failures, get_avg_confirmed and
\* get_avg_weirds answers -1 exactly when total_measurements = 0 and
\* otherwise its total divided by total_measurements, which is never -1.
C12_AvgSentinelIffNoMeasurements ==
    LET tm == dayset.total_measurements
        Right(avg, total) ==
            /\ (avg = MinusOne) <=> (tm = 0)
            /\ tm # 0 => (IsQuotient(avg, total, tm) /\ avg.d > 0 /\ avg.n >= 0)
    IN  /\ Right(get_avg_anomalies(dayset), dayset.total_anomalies)
        /\ Right(get_avg_failures(dayset), dayset.total_failures)
        /\ Right(get_avg_confirmed(dayset), dayset.total_confirmed)
        /\ Right(get_avg_weirds(dayset), dayset.total_weird_behavior)

\* a set with measurements, one of whose rates is 0 and another is not
C12_Witness ==
    /\ Len(calls) >= 1
    /\ dayset.total_measurements > 0
    /\ get_avg_confirmed(dayset) = Zero
    /\ get_avg_failures(dayset) \notin {Zero, MinusOne}

\* C20: no two days of a set have the same start_day, after construction from
\* any list of days and after any sequence of add_day calls.
C20_DaysUnique ==
    \A i, j \in 1..Len(dayset.days) :
        i # j => dayset.days[i].start_day # dayset.days[j].start_day

====
